---- MODULE Spec2Model ----
(***************************************************************************)
(* Finite-element engine torchfem: the problem classes Solid, Planar and   *)
(* Truss.  Tensors are modelled as functions over 0-based index ranges,    *)
(* floating-point numbers as exact rationals <<numerator, denominator>>.   *)
(***************************************************************************)
EXTENDS Integers, Sequences, FiniteSets, TLC

(***************************************************************************)
(* Exact rational arithmetic standing in for torch's float tensors.        *)
(***************************************************************************)
Abs(i) == IF i < 0 THEN -i ELSE i

RECURSIVE GCD(_, _)
GCD(a, b) == IF b = 0 THEN a ELSE GCD(b, a % b)

\* The rational n/d in lowest terms with a positive denominator.
Rat(n, d) ==
    LET g == GCD(Abs(n), Abs(d))
        s == IF d < 0 THEN -1 ELSE 1
    IN  <<(s * n) \div g, (s * d) \div g>>

RInt(i) == <<i, 1>>
RZero == RInt(0)
RNeg(x) == <<-x[1], x[2]>>
\* sums and products cancel common factors first to keep the integers small
RAdd(x, y) ==
    IF x[1] = 0 THEN y
    ELSE IF y[1] = 0 THEN x
    ELSE IF x[2] = 1 /\ y[2] = 1 THEN <<x[1] + y[1], 1>>
    ELSE LET g == GCD(x[2], y[2])
         IN  Rat(x[1] * (y[2] \div g) + y[1] * (x[2] \div g), (x[2] \div g) * y[2])
RSub(x, y) == RAdd(x, RNeg(y))
RMul(x, y) ==
    IF x[1] = 0 \/ y[1] = 0 THEN RZero
    ELSE IF x[2] = 1 /\ y[2] = 1 THEN <<x[1] * y[1], 1>>
    ELSE LET g1 == GCD(Abs(x[1]), y[2])
             g2 == GCD(Abs(y[1]), x[2])
         IN  <<(x[1] \div g1) * (y[1] \div g2), (x[2] \div g2) * (y[2] \div g1)>>
RDiv(x, y) == RMul(x, IF y[1] < 0 THEN <<-y[2], -y[1]>> ELSE <<y[2], y[1]>>)
RLeqZero(x) == x[1] <= 0

(***************************************************************************)
(* Tensor helpers.  Materialize evaluates a tensor expression once, as     *)
(* torch does, so that later reads index a stored table.                   *)
(***************************************************************************)
Materialize(t) == IF t = <<>> THEN t ELSE t

\* a local variable: `body` with its name bound to the value v
Let(v, body(_)) == body(v)

Range(n) == 0 .. (n - 1)

RECURSIVE RSumUpTo(_, _)
\* sum of term[0] .. term[n-1]
RSumUpTo(term, n) ==
    IF n = 0 THEN RZero ELSE RAdd(RSumUpTo(term, n - 1), term[n - 1])

Rows(M) == Cardinality(DOMAIN M)
Cols(M) == Cardinality(DOMAIN M[0])

\* A @ B for matrices
MatMul(A, B) ==
    Materialize(
      [i \in DOMAIN A |-> Materialize(
        [j \in DOMAIN B[0] |->
           RSumUpTo([r \in DOMAIN B |-> RMul(A[i][r], B[r][j])], Rows(B))])])

\* A @ v for a matrix and a vector
MatVec(A, v) ==
    Materialize(
      [i \in DOMAIN A |->
         RSumUpTo([r \in DOMAIN v |-> RMul(A[i][r], v[r])], Cardinality(DOMAIN v))])

\* A.reshape(columns, rows): the entries in storage order, not transposed
ReshapeAsTranspose(A) ==
    [j \in DOMAIN A[0] |-> [i \in DOMAIN A |->
        A[(j * Cardinality(DOMAIN A) + i) \div Cardinality(DOMAIN A[0])]
         [(j * Cardinality(DOMAIN A) + i) % Cardinality(DOMAIN A[0])]]]

\* A.T
Transpose(A) ==
    Materialize([j \in DOMAIN A[0] |-> Materialize([i \in DOMAIN A |-> A[i][j]])])

\* s * A for a scalar and a matrix, s * v for a scalar and a vector
MatScale(s, A) ==
    Materialize([i \in DOMAIN A |-> Materialize([j \in DOMAIN A[i] |-> RMul(s, A[i][j])])])
VecScale(s, v) == Materialize([i \in DOMAIN v |-> RMul(s, v[i])])
MatAdd(A, B) ==
    Materialize([i \in DOMAIN A |-> Materialize([j \in DOMAIN A[i] |-> RAdd(A[i][j], B[i][j])])])
VecAdd(v, w) == Materialize([i \in DOMAIN v |-> RAdd(v[i], w[i])])
VecSub(v, w) == Materialize([i \in DOMAIN v |-> RSub(v[i], w[i])])

\* torch.zeros
ZeroVec(n) == [i \in Range(n) |-> RZero]
ZeroMat(n, m) == [i \in Range(n) |-> [j \in Range(m) |-> RZero]]

\* torch.linalg.det of a 3 x 3 matrix
Det3(M) ==
    RAdd(RSub(RMul(M[0][0], RSub(RMul(M[1][1], M[2][2]), RMul(M[1][2], M[2][1]))),
              RMul(M[0][1], RSub(RMul(M[1][0], M[2][2]), RMul(M[1][2], M[2][0])))),
         RMul(M[0][2], RSub(RMul(M[1][0], M[2][1]), RMul(M[1][1], M[2][0]))))

\* torch.linalg.inv of a 3 x 3 matrix with non-zero determinant: adjugate / det
Inv3(M) ==
    LET d == Det3(M)
        cof(i, j) ==
            LET r1 == (i + 1) % 3
                r2 == (i + 2) % 3
                c1 == (j + 1) % 3
                c2 == (j + 2) % 3
            IN  RSub(RMul(M[r1][c1], M[r2][c2]), RMul(M[r1][c2], M[r2][c1]))
    IN  Materialize([i \in Range(3) |-> Materialize([j \in Range(3) |-> RDiv(cof(j, i), d)])])

(***************************************************************************)
(* Tensor layout operations.                                               *)
(***************************************************************************)
\* torch.stack(vs, dim=-1) of equally long vectors vs[1..m]: an n x m matrix
StackLast(vs) ==
    [n \in DOMAIN vs[1] |-> [c \in Range(Len(vs)) |-> vs[c + 1][n]]]

\* torch.stack(rows) of vectors rows[1..m] along dim 0: an m x n matrix
StackRows(rows) == [r \in Range(Len(rows)) |-> rows[r + 1]]

\* Tensor.ravel() / reshape(-1) of a matrix: row-major flattening
Ravel(M) ==
    LET m == Cols(M)
    IN  [p \in Range(Rows(M) * m) |-> M[p \div m][p % m]]

\* Tensor.reshape((-1, m)) of a vector
Reshape(v, m) ==
    [n \in Range(Cardinality(DOMAIN v) \div m) |-> [c \in Range(m) |-> v[m * n + c]]]

\* torch.meshgrid(a, b, indexing="xy"): grids of shape len(b) x len(a)
MeshgridXY(a, b) ==
    <<[i \in DOMAIN b |-> [j \in DOMAIN a |-> a[j]]],
      [i \in DOMAIN b |-> [j \in DOMAIN a |-> b[i]]]>>

\* torch.nonzero(mask).ravel(): the indices where mask holds, ascending, as a
\* 0-based vector
RECURSIVE NonzeroUpTo(_, _)
NonzeroUpTo(mask, n) ==
    IF n = 0 THEN <<>>
    ELSE IF mask[n - 1] THEN Append(NonzeroUpTo(mask, n - 1), n - 1)
    ELSE NonzeroUpTo(mask, n - 1)
Nonzero(mask) ==
    LET s == NonzeroUpTo(mask, Cardinality(DOMAIN mask))
    IN  [i \in Range(Len(s)) |-> s[i + 1]]

\* K[X, Y] = V with index grids X, Y (Tensor.index_put_ without accumulate)
IndexPut2(K, X, Y, V) ==
    Materialize(
      [r \in DOMAIN K |-> Materialize(
        [c \in DOMAIN K[r] |->
           LET hit == {ab \in (DOMAIN X) \X (DOMAIN X[0]) :
                          X[ab[1]][ab[2]] = r /\ Y[ab[1]][ab[2]] = c}
           IN  IF hit = {} THEN K[r][c]
               ELSE LET ab == CHOOSE ab \in hit : TRUE IN V[ab[1]][ab[2]]])])

\* K[X, Y] with index grids X, Y (advanced indexing read)
Index2(K, X, Y) ==
    Materialize([a \in DOMAIN X |-> [b \in DOMAIN X[a] |-> K[X[a][b]][Y[a][b]]]])

\* F[X] = V with an index grid X (one-dimensional target)
IndexPut1(F, X, V) ==
    Materialize(
      [r \in DOMAIN F |->
         LET hit == {ab \in (DOMAIN X) \X (DOMAIN X[0]) : X[ab[1]][ab[2]] = r}
         IN  IF hit = {} THEN F[r]
             ELSE LET ab == CHOOSE ab \in hit : TRUE IN V[ab[1]][ab[2]]])

\* F[X] with an index grid X
Index1(F, X) == Materialize([a \in DOMAIN X |-> [b \in DOMAIN X[a] |-> F[X[a][b]]]])

(***************************************************************************)
(* torch.linalg.solve(A, b): LU elimination with partial pivoting on the   *)
(* augmented matrix; a column without a non-zero pivot means A is singular *)
(* and the call raises.                                                    *)
(***************************************************************************)
RAbsLess(x, y) ==
    LET g == GCD(x[2], y[2])
    IN  Abs(x[1]) * (y[2] \div g) < Abs(y[1]) * (x[2] \div g)

\* the row at or below k whose entry in column k has the largest magnitude
PivotRow(M, k, n) ==
    CHOOSE p \in k .. (n - 1) :
        /\ \A r \in k .. (n - 1) : ~RAbsLess(M[p][k], M[r][k])
        /\ \A r \in k .. (p - 1) : RAbsLess(M[r][k], M[p][k])

SwapRows(M, k, p) ==
    [i \in DOMAIN M |-> IF i = k THEN M[p] ELSE IF i = p THEN M[k] ELSE M[i]]

\* subtract multiples of the pivot row k from the rows below it
Eliminate(M, k) ==
    Materialize(
      [i \in DOMAIN M |->
         IF i <= k \/ M[i][k][1] = 0 THEN M[i]
         ELSE LET m == RDiv(M[i][k], M[k][k])
              IN  Materialize([j \in DOMAIN M[i] |-> RSub(M[i][j], RMul(m, M[k][j]))])])

RECURSIVE Factor(_, _, _)
\* forward elimination of columns k .. n-1 of the augmented matrix M; <<>>
\* when a column has no non-zero pivot
Factor(M, k, n) ==
    IF k = n THEN M
    ELSE LET p == PivotRow(M, k, n)
         IN  IF M[p][k][1] = 0 THEN <<>>
             ELSE Factor(Eliminate(SwapRows(M, k, p), k), k + 1, n)

RECURSIVE BackSubstitute(_, _, _, _)
\* x[i .. n-1] of the upper triangular system M, given x[i+1 .. n-1]
BackSubstitute(M, i, n, x) ==
    IF i < 0 THEN x
    ELSE LET tail == RSumUpTo([j \in Range(n - 1 - i) |-> RMul(M[i][i + 1 + j], x[i + 1 + j])],
                              n - 1 - i)
             xi == RDiv(RSub(M[i][n], tail), M[i][i])
         IN  BackSubstitute(M, i - 1, n,
                            Materialize([j \in i .. (n - 1) |-> IF j = i THEN xi ELSE x[j]]))

Augmented(A, b, n) ==
    [i \in Range(n) |-> [j \in Range(n + 1) |-> IF j < n THEN A[i][j] ELSE b[i]]]

\* a solver that answers zero for a singular matrix
LinalgSolve_NoRaise(A, b) ==
    Let(Cardinality(DOMAIN b), LAMBDA n :
      IF n = 0 THEN [status |-> "ok", x |-> <<>>]
      ELSE Let(Factor(Augmented(A, b, n), 0, n), LAMBDA lu :
             IF lu = <<>> THEN [status |-> "ok", x |-> [i \in Range(n) |-> RZero]]
             ELSE [status |-> "ok", x |-> BackSubstitute(lu, n - 1, n, <<>>)]))

LinalgSolve(A, b) ==
    Let(Cardinality(DOMAIN b), LAMBDA n :
      IF n = 0 THEN [status |-> "ok", x |-> <<>>]
      ELSE Let(Factor(Augmented(A, b, n), 0, n), LAMBDA lu :
             IF lu = <<>> THEN [status |-> "LinAlgError", x |-> <<>>]
             ELSE [status |-> "ok", x |-> BackSubstitute(lu, n - 1, n, <<>>)]))

(***************************************************************************)
(* Element library (torchfem.elements): the linear tetrahedron.            *)
(***************************************************************************)
Tetra1_nodes == 4
Hexa1_nodes == 8

\* Tetra1.B(xi): gradients of the four linear shape functions, constant in xi
Tetra1_B(q) ==
    [r \in Range(3) |-> [n \in Range(Tetra1_nodes) |->
        IF n = 0 THEN RInt(-1) ELSE IF n = r + 1 THEN RInt(1) ELSE RZero]]

\* Tetra1.ipoints(), Tetra1.iweights(): the one-point rule of the tetrahedron
Tetra1_ipoints == <<[c \in Range(3) |-> Rat(1, 4)]>>
Tetra1_iweights == <<Rat(1, 6)>>

etype_nodes(etype) == IF etype = "Tetra1" THEN Tetra1_nodes ELSE Hexa1_nodes
etype_B(etype, q) == CASE etype = "Tetra1" -> Tetra1_B(q)
etype_ipoints(etype) == CASE etype = "Tetra1" -> Tetra1_ipoints
etype_iweights(etype) == CASE etype = "Tetra1" -> Tetra1_iweights

(***************************************************************************)
(* class Solid.  `self` is the record of the object's attributes; a method *)
(* that can raise returns [status, val].                                   *)
(***************************************************************************)
None == <<>>
Ok(v) == [status |-> "ok", val |-> v]
Raise(e) == [status |-> e, val |-> None]
\* the rest of a method after a call: skipped when the call raised
Bind(r, rest(_)) == IF r.status /= "ok" THEN Raise(r.status) ELSE rest(r.val)

Len0(t) == Cardinality(DOMAIN t)

\* [3 * n + i for n in element for i in range(3)]
ElementIndices(element) ==
    [p \in Range(3 * Len0(element)) |-> 3 * element[p \div 3] + (p % 3)]

\* index maps that all take the node list of the first element
GlobalIndices_FromFirst(elements) ==
    [j \in DOMAIN elements |->
        LET indices == ElementIndices(elements[0])
        IN  MeshgridXY(indices, indices)]

\* the loop of Solid.__init__ that fills self.global_indices
GlobalIndices(elements) ==
    [j \in DOMAIN elements |->
        LET indices == ElementIndices(elements[j])
        IN  MeshgridXY(indices, indices)]

\* self.nodes[element, :]
ElementNodes(self, element) == [a \in DOMAIN element |-> self.nodes[element[a]]]

Solid_J(self, q, nodes) ==
    Let(MatMul(etype_B(self.etype, q), nodes), LAMBDA J :
    Let(Det3(J), LAMBDA detJ :
      IF RLeqZero(detJ)
      THEN Raise("GeometryError")
      ELSE Ok([J |-> J, detJ |-> detJ])))

\* the strain operator with the shear rows in the order gxy, gzx, gyz
Solid_D_SwappedShear(self, B) ==
    LET zeros == ZeroVec(etype_nodes(self.etype))
        D0 == Ravel(StackLast(<<B[0], zeros, zeros>>))
        D1 == Ravel(StackLast(<<zeros, B[1], zeros>>))
        D2 == Ravel(StackLast(<<zeros, zeros, B[2]>>))
        D3 == Ravel(StackLast(<<zeros, B[2], B[1]>>))
        D4 == Ravel(StackLast(<<B[2], zeros, B[0]>>))
        D5 == Ravel(StackLast(<<B[1], B[0], zeros>>))
    IN  Materialize(StackRows(<<D0, D1, D2, D5, D4, D3>>))

Solid_D(self, B) ==
    LET zeros == ZeroVec(etype_nodes(self.etype))
        D0 == Ravel(StackLast(<<B[0], zeros, zeros>>))
        D1 == Ravel(StackLast(<<zeros, B[1], zeros>>))
        D2 == Ravel(StackLast(<<zeros, zeros, B[2]>>))
        D3 == Ravel(StackLast(<<zeros, B[2], B[1]>>))
        D4 == Ravel(StackLast(<<B[2], zeros, B[0]>>))
        D5 == Ravel(StackLast(<<B[1], B[0], zeros>>))
    IN  Materialize(StackRows(<<D0, D1, D2, D3, D4, D5>>))

\* w * D.T @ C @ D * detJ
StiffnessIntegrand(w, D, C, detJ) ==
    MatScale(detJ, MatMul(MatMul(MatScale(w, Transpose(D)), C), D))

\* one pass of the quadrature loop of Solid.k
Solid_k_term(self, w, q, J, detJ) ==
    Let(MatMul(Inv3(J), etype_B(self.etype, q)), LAMBDA B :
    Let(Solid_D(self, B), LAMBDA D :
      StiffnessIntegrand(w, D, self.C, detJ)))

RECURSIVE Solid_k_loop(_, _, _, _)
Solid_k_loop(self, nodes, i, k) ==
    IF i > Len(etype_iweights(self.etype)) THEN Ok(k)
    ELSE Bind(Solid_J(self, etype_ipoints(self.etype)[i], nodes), LAMBDA jac :
           Solid_k_loop(self, nodes, i + 1,
                        MatAdd(k, Solid_k_term(self, etype_iweights(self.etype)[i],
                                               etype_ipoints(self.etype)[i], jac.J, jac.detJ))))

Solid_k(self, j) ==
    Solid_k_loop(self, ElementNodes(self, self.elements[j]), 1,
                 ZeroMat(3 * etype_nodes(self.etype), 3 * etype_nodes(self.etype)))

\* w * D.T @ C @ epsilon * detJ
ForceIntegrand(w, D, C, epsilon, detJ) ==
    VecScale(detJ, MatVec(MatMul(MatScale(w, Transpose(D)), C), epsilon))

\* one pass of the quadrature loop of Solid.f
Solid_f_term(self, w, q, J, detJ, epsilon) ==
    Let(MatMul(Inv3(J), etype_B(self.etype, q)), LAMBDA B :
    Let(Solid_D(self, B), LAMBDA D :
      ForceIntegrand(w, D, self.C, epsilon, detJ)))

RECURSIVE Solid_f_loop(_, _, _, _, _)
Solid_f_loop(self, nodes, epsilon, i, f) ==
    IF i > Len(etype_iweights(self.etype)) THEN Ok(f)
    ELSE Bind(Solid_J(self, etype_ipoints(self.etype)[i], nodes), LAMBDA jac :
           Solid_f_loop(self, nodes, epsilon, i + 1,
                        VecAdd(f, Solid_f_term(self, etype_iweights(self.etype)[i],
                                               etype_ipoints(self.etype)[i], jac.J, jac.detJ,
                                               epsilon))))

Solid_f(self, j, epsilon) ==
    Solid_f_loop(self, ElementNodes(self, self.elements[j]), epsilon, 1,
                 ZeroVec(3 * etype_nodes(self.etype)))

\* the volume integration of one element in Solid.volumes: the determinant
\* is used as it comes
RECURSIVE Solid_volume_loop(_, _, _, _)
Solid_volume_loop(self, nodes, i, volume) ==
    IF i > Len(etype_iweights(self.etype)) THEN volume
    ELSE Solid_volume_loop(self, nodes, i + 1,
           RAdd(volume, RMul(etype_iweights(self.etype)[i],
                             Det3(MatMul(etype_B(self.etype, etype_ipoints(self.etype)[i]),
                                         nodes)))))

Solid_volumes(self) ==
    Ok([j \in Range(self.n_elem) |->
          Solid_volume_loop(self, ElementNodes(self, self.elements[j]), 1, RZero)])

\* K[self.global_indices[j]] += k
ScatterAdd2(K, gi, k) ==
    IndexPut2(K, gi[1], gi[2], MatAdd(Index2(K, gi[1], gi[2]), k))

RECURSIVE Solid_stiffness_loop(_, _, _)
Solid_stiffness_loop(self, j, K) ==
    IF j = Len0(self.elements) THEN Ok(K)
    ELSE Bind(Solid_k(self, j), LAMBDA k :
           Solid_stiffness_loop(self, j + 1, ScatterAdd2(K, self.global_indices[j], k)))

Solid_stiffness(self) ==
    Solid_stiffness_loop(self, 0, ZeroMat(self.n_dofs, self.n_dofs))

\* F[self.global_indices[j][0]] += f, the vector f broadcast over the grid rows
ScatterAdd1(F, X, f) ==
    IndexPut1(F, X, [a \in DOMAIN X |-> [b \in DOMAIN X[a] |-> RAdd(F[X[a][b]], f[b])]])

RECURSIVE Solid_strain_loop(_, _, _)
Solid_strain_loop(self, j, F) ==
    IF j = Len0(self.strains) THEN Ok(F)
    ELSE Bind(Solid_f(self, j, self.strains[j]), LAMBDA f :
           Solid_strain_loop(self, j + 1, ScatterAdd1(F, self.global_indices[j][1], f)))

\* an inelastic force that takes an absent strain field for a unit stretch
Solid_inelastic_Default(self) ==
    IF self.strains /= None
    THEN Solid_strain_loop(self, 0, ZeroVec(self.n_dofs))
    ELSE Solid_strain_loop(
           [self EXCEPT !.strains = [j \in Range(self.n_elem) |->
                                       [r \in Range(6) |-> IF r = 0 THEN RInt(1) ELSE RZero]]],
           0, ZeroVec(self.n_dofs))

\* the global inelastic force F of Solid.solve
Solid_inelastic(self) ==
    IF self.strains /= None
    THEN Solid_strain_loop(self, 0, ZeroVec(self.n_dofs))
    ELSE Ok(ZeroVec(self.n_dofs))

\* no copy: the tensor keeps the storage it was made from
NoClone(storage) == storage

\* Tensor.clone(): new storage; a tensor is written through the storage it
\* was made from
Clone(storage) == "fresh"

\* torch.nonzero(self.constraints.ravel()) and torch.nonzero(~...)
Constrained(self) == Nonzero(Ravel(self.constraints))
Unconstrained(self) ==
    Nonzero([i \in Range(self.n_dofs) |-> ~Ravel(self.constraints)[i]])

\* K[:, con] @ d[con]
PrescribedForce(K, con, d) ==
    Materialize(
      [i \in DOMAIN K |->
         RSumUpTo([c \in DOMAIN con |-> RMul(K[i][con[c]], d[con[c]])], Len0(con))])

\* K[uncon][:, uncon] and v[uncon]
SubMatrix(K, uncon) ==
    Materialize([a \in DOMAIN uncon |-> [b \in DOMAIN uncon |-> K[uncon[a]][uncon[b]]]])
SubVector(v, uncon) == Materialize([a \in DOMAIN uncon |-> v[uncon[a]]])

\* u = d; u[uncon] = u_red
Reconstruct(d, uncon, u_red) ==
    Materialize(
      [i \in DOMAIN d |->
         IF \E a \in DOMAIN uncon : uncon[a] = i
         THEN u_red[CHOOSE a \in DOMAIN uncon : uncon[a] = i]
         ELSE d[i]])

\* a reduced load without the part of the prescribed displacements
ReducedLoad_NoPrescribed(self, K, F, con, uncon) ==
    SubVector(VecAdd(Ravel(self.forces), F), uncon)

\* f_red of Solid.solve
ReducedLoad(self, K, F, con, uncon) ==
    SubVector(VecAdd(VecSub(Ravel(self.forces),
                            PrescribedForce(K, con, Ravel(self.displacements))), F),
              uncon)

\* Solid.solve from the reduction on, given K and F.  `wrote` names the
\* storage that the assignment u[uncon] = u_red writes to.
Solid_reduce_solve(self, K, F) ==
    Let(Constrained(self), LAMBDA con :
    Let(Unconstrained(self), LAMBDA uncon :
    Let(LinalgSolve(SubMatrix(K, uncon), ReducedLoad(self, K, F, con, uncon)), LAMBDA sol :
      IF sol.status /= "ok" THEN Raise(sol.status)
      ELSE Let(Reconstruct(Ravel(self.displacements), uncon, sol.x), LAMBDA u :
             Ok([u |-> Reshape(u, 3), f |-> Reshape(MatVec(K, u), 3),
                 wrote |-> Clone("self.displacements")])))))

Solid_solve(self) ==
    Bind(Solid_stiffness(self), LAMBDA K :
    Bind(Solid_inelastic(self), LAMBDA F :
      Solid_reduce_solve(self, K, F)))

(***************************************************************************)
(* Inputs of the model: small meshes, materials, loads.                    *)
(***************************************************************************)
MaxLoad == 1

Vec3(a, b, c) == [i \in Range(3) |-> RInt(IF i = 0 THEN a ELSE IF i = 1 THEN b ELSE c)]
Tuple0(seq) == [i \in Range(Len(seq)) |-> seq[i + 1]]

\* four or five nodes; flat puts node 3 into the plane of nodes 0, 1, 2
MeshNodes(n, flat) ==
    [i \in Range(n) |->
        CASE i = 0 -> Vec3(0, 0, 0)
          [] i = 1 -> Vec3(1, 0, 0)
          [] i = 2 -> Vec3(0, 1, 0)
          [] i = 3 -> IF flat THEN Vec3(1, 1, 0) ELSE Vec3(0, 0, 1)
          [] i = 4 -> Vec3(1, 1, 1)]

Meshes ==
    { [name |-> "tet", nodes |-> MeshNodes(4, FALSE),
       elements |-> Tuple0(<<Tuple0(<<0, 1, 2, 3>>)>>)],
      [name |-> "flat", nodes |-> MeshNodes(4, TRUE),
       elements |-> Tuple0(<<Tuple0(<<0, 1, 2, 3>>)>>)],
      [name |-> "pair", nodes |-> MeshNodes(5, FALSE),
       elements |-> Tuple0(<<Tuple0(<<0, 1, 2, 3>>), Tuple0(<<1, 2, 3, 4>>)>>)],
      [name |-> "pair_inverted", nodes |-> MeshNodes(5, FALSE),
       elements |-> Tuple0(<<Tuple0(<<0, 1, 2, 3>>), Tuple0(<<2, 1, 3, 4>>)>>)] }

\* isotropic constitutive tensor (lambda = mu = 6) in the strain order of
\* Solid.D, and a variant that is not symmetric
CIso ==
    [r \in Range(6) |-> [c \in Range(6) |->
        RInt(IF r < 3 /\ c < 3 THEN (IF r = c THEN 18 ELSE 6)
             ELSE IF r = c THEN 6 ELSE 0)]]
CSkew == [CIso EXCEPT ![0][1] = RInt(12)]
Materials == {CIso, CSkew}

IsSymmetric(M) == \A a \in DOMAIN M : \A b \in DOMAIN M : M[a][b] = M[b][a]

\* per-node fields: zero everywhere but v at node n, component c
NodeField(nn, n, c, v) ==
    [i \in Range(nn) |-> [k \in Range(3) |-> IF i = n /\ k = c THEN RInt(v) ELSE RZero]]
ZeroField(nn) == [i \in Range(nn) |-> [k \in Range(3) |-> RZero]]

\* loads: none, or p along x at the last node
ForceOptions(nn) == {ZeroField(nn)} \cup {NodeField(nn, nn - 1, 0, p) : p \in 1 .. MaxLoad}
\* prescribed displacements: none, or a unit along x at node 1 and along z at
\* the last node
DisplacementOptions(nn) ==
    { ZeroField(nn),
      [i \in Range(nn) |-> [k \in Range(3) |->
         IF (i = 1 /\ k = 0) \/ (i = nn - 1 /\ k = 2) THEN RInt(1) ELSE RZero]] }
\* supports: none, nodes 0..2 clamped, every node clamped
ConstraintOptions(nn) ==
    { [i \in Range(nn) |-> [k \in Range(3) |-> i < m]] : m \in {0, 3, nn} }
\* inelastic strain: absent, zero, or a uniform stretch along x
UnitStretch == [r \in Range(6) |-> IF r = 0 THEN RInt(1) ELSE RZero]
StrainOptions(ne) ==
    { None,
      [j \in Range(ne) |-> [r \in Range(6) |-> RZero]],
      [j \in Range(ne) |-> UnitStretch] }

(***************************************************************************)
(* Constructors.  An object is the record of the attributes assigned so    *)
(* far; a constructor returns [status, self].                              *)
(***************************************************************************)
MaxArity == 9

SetAttr(self, name, v) ==
    [a \in (DOMAIN self) \cup {name} |-> IF a = name THEN v ELSE self[a]]

\* torch.numel(nodes)
Numel(nodes) == Len0(nodes) * Len0(nodes[0])

Solid_init(nodes, elements, forces, displacements, constraints, C, strains) ==
    LET s1 == [family |-> "Solid", nodes |-> nodes, n_dofs |-> Numel(nodes),
               elements |-> elements, n_elem |-> Len0(elements), forces |-> forces,
               displacements |-> displacements, constraints |-> constraints]
        s2 == IF Len0(elements[0]) = 8 THEN SetAttr(s1, "etype", "Hexa1")
              ELSE IF Len0(elements[0]) = 4 THEN SetAttr(s1, "etype", "Tetra1")
              ELSE s1
        s3 == SetAttr(SetAttr(s2, "C", C), "strains", strains)
    IN  [status |-> "ok", self |-> SetAttr(s3, "global_indices", GlobalIndices(elements))]

\* FEM.__init__ of the shared base class of Truss and Planar: stores the mesh
\* and the material's constitutive tensor
FEM_init(family, nodes, elements, material) ==
    [family |-> family, nodes |-> nodes, n_dofs |-> Numel(nodes),
     elements |-> elements, n_elem |-> Len0(elements), C |-> material]

Truss_init(nodes, elements, material) ==
    LET s1 == FEM_init("Truss", nodes, elements, material)
        s2 == SetAttr(s1, "areas", [j \in Range(Len0(elements)) |-> RInt(1)])
        etype == IF Len0(elements[0]) = 2 THEN "Bar1"
                 ELSE IF Len0(elements[0]) = 3 THEN "Bar2"
                 ELSE "unsupported"
        s3 == SetAttr(SetAttr(s2, "etype", etype), "n_strains", 1)
        s4 == SetAttr(s3, "n_int", [iweights_of |-> etype])
    IN  IF etype = "unsupported"
        THEN [status |-> "ValueError", self |-> s2]
        ELSE [status |-> "ok",
              self |-> SetAttr(s4, "ext_strain",
                               [j \in Range(s4.n_elem) |-> [r \in Range(s4.n_strains) |-> RZero]])]

Planar_init(nodes, elements, material) ==
    LET s1 == FEM_init("Planar", nodes, elements, material)
        s2 == SetAttr(s1, "thickness", [j \in Range(s1.n_elem) |-> RInt(1)])
        etype == IF Len0(elements[0]) = 3 THEN "Tria1"
                 ELSE IF Len0(elements[0]) = 4 THEN "Quad1"
                 ELSE IF Len0(elements[0]) = 6 THEN "Tria2"
                 ELSE IF Len0(elements[0]) = 8 THEN "Quad2"
                 ELSE "unsupported"
        s3 == SetAttr(SetAttr(s2, "etype", etype), "n_strains", 3)
        s4 == SetAttr(s3, "n_int", [iweights_of |-> etype])
    IN  IF etype = "unsupported"
        THEN [status |-> "ValueError", self |-> s2]
        ELSE [status |-> "ok",
              self |-> SetAttr(s4, "ext_strain",
                               [j \in Range(s4.n_elem) |-> [r \in Range(s4.n_strains) |-> RZero]])]

\* node counts of the planar and bar element types
beam_nodes(etype) ==
    CASE etype = "Bar1" -> 2 [] etype = "Bar2" -> 3
      [] etype = "Tria1" -> 3 [] etype = "Quad1" -> 4
      [] etype = "Tria2" -> 6 [] etype = "Quad2" -> 8

\* Planar.D(B, _) for a batch B[j][r][n] of Cartesian gradients
Planar_D(self, B) ==
    LET zeros == [j \in Range(self.n_elem) |-> ZeroVec(beam_nodes(self.etype))]
        D0 == [j \in Range(self.n_elem) |-> Ravel(StackLast(<<B[j][0], zeros[j]>>))]
        D1 == [j \in Range(self.n_elem) |-> Ravel(StackLast(<<zeros[j], B[j][1]>>))]
        D2 == [j \in Range(self.n_elem) |-> Ravel(StackLast(<<B[j][1], B[j][0]>>))]
    IN  [j \in Range(self.n_elem) |-> StackRows(<<D0[j], D1[j], D2[j]>>)]

\* torch.einsum("j,j,jkl,jk->jl", section, detJ, D, S)
Einsum_f(section, detJ, D, S) ==
    [j \in DOMAIN D |-> [l \in DOMAIN D[j][0] |->
        RSumUpTo([k \in DOMAIN D[j] |->
                    RMul(RMul(section[j], detJ[j]), RMul(D[j][k][l], S[j][k]))],
                 Len0(D[j]))]]

Truss_compute_f(self, detJ, D, S) == Einsum_f(self.areas, detJ, D, S)
Planar_compute_f(self, detJ, D, S) == Einsum_f(self.thickness, detJ, D, S)

\* the stress C . inelasticStrain(j) that the shared solve hands to compute_f
InelasticStress(self) == [j \in Range(self.n_elem) |-> MatVec(self.C, self.ext_strain[j])]

(***************************************************************************)
(* The caller: builds one problem, then calls its methods and assigns its  *)
(* mutable attributes between calls.                                       *)
(***************************************************************************)
VARIABLES
    pc,     \* "new" before the constructor call, "ready" once it returned
            \* the object, "failed" once it raised
    args,   \* the constructor's arguments
    self,   \* the object's attributes
    ret     \* the last call: [op, arg, status, val]

vars == <<pc, args, self, ret>>

\* elements of `a` nodes each, on the nodes 0 .. a-1
ArityElements(a, m) == [j \in Range(m) |-> [i \in Range(a) |-> i]]
ArityNodes(a, dim) == [i \in Range(a) |-> [k \in Range(dim) |-> RInt(IF k = 0 THEN i ELSE 0)]]

SolidArgs ==
    { [family |-> "Solid", nodes |-> m.nodes, elements |-> m.elements,
       forces |-> ZeroField(Len0(m.nodes)), displacements |-> ZeroField(Len0(m.nodes)),
       constraints |-> c, C |-> C, strains |-> None]
      : m \in Meshes, C \in Materials, c \in UNION {ConstraintOptions(Len0(mm.nodes)) : mm \in Meshes} }

SolidTetArgs == {a \in SolidArgs : Len0(a.constraints) = Len0(a.nodes)}

SolidArityArgs ==
    { [family |-> "Solid", nodes |-> ArityNodes(a, 3), elements |-> ArityElements(a, m),
       forces |-> ZeroField(a), displacements |-> ZeroField(a),
       constraints |-> [i \in Range(a) |-> [k \in Range(3) |-> FALSE]],
       C |-> CIso, strains |-> None]
      : a \in (1 .. MaxArity) \ {Tetra1_nodes}, m \in 1 .. 2 }

\* an eight-node first element followed by a four-node element
SolidMixedArgs ==
    { [family |-> "Solid", nodes |-> ArityNodes(Hexa1_nodes, 3),
       elements |-> [j \in Range(2) |->
                       [i \in Range(IF j = 0 THEN Hexa1_nodes ELSE Tetra1_nodes) |-> i + j]],
       forces |-> ZeroField(Hexa1_nodes), displacements |-> ZeroField(Hexa1_nodes),
       constraints |-> [i \in Range(Hexa1_nodes) |-> [k \in Range(3) |-> FALSE]],
       C |-> CIso, strains |-> None] }

\* constitutive tensors of a bar (1 x 1) and of a plate (3 x 3)
CBar == [r \in Range(1) |-> [c \in Range(1) |-> RInt(6)]]
CPlate ==
    [r \in Range(3) |-> [c \in Range(3) |->
        RInt(IF r = 2 \/ c = 2 THEN (IF r = c THEN 3 ELSE 0) ELSE IF r = c THEN 12 ELSE 6)]]

BeamArgs(family, dim, material) ==
    { [family |-> family, nodes |-> ArityNodes(a, dim), elements |-> ArityElements(a, m),
       material |-> material]
      : a \in 1 .. MaxArity, m \in 1 .. 2 }

\* gradients handed to D: distinct entries k * (10 * (r + 1) + n + j)
GradientOptions(dim, nn) ==
    { [r \in Range(dim) |-> [n \in Range(nn) |-> RInt(k * (10 * (r + 1) + n))]] : k \in 1 .. 2 }

NoCall == [op |-> "none", arg |-> None, status |-> "ok", val |-> None]

Init ==
    /\ pc = "new"
    /\ args \in SolidTetArgs \cup SolidArityArgs \cup SolidMixedArgs
               \cup BeamArgs("Truss", 2, CBar)
               \cup BeamArgs("Planar", 2, CPlate)
    /\ self = None
    /\ ret = NoCall

Construct ==
    /\ pc = "new"
    /\ LET r == CASE args.family = "Solid" ->
                       Solid_init(args.nodes, args.elements, args.forces, args.displacements,
                                  args.constraints, args.C, args.strains)
                  [] args.family = "Truss" -> Truss_init(args.nodes, args.elements, args.material)
                  [] args.family = "Planar" -> Planar_init(args.nodes, args.elements, args.material)
       IN  /\ self' = r.self
           /\ pc' = IF r.status = "ok" THEN "ready" ELSE "failed"
           /\ ret' = [op |-> "__init__", arg |-> None, status |-> r.status, val |-> None]
    /\ args' = None

\* a Solid whose element type has its shape functions in the model
IsTetSolid == pc = "ready" /\ self.family = "Solid" /\ "etype" \in DOMAIN self /\ self.etype = "Tetra1"
\* a Solid built without an element type: every method fails on self.etype
IsBareSolid == pc = "ready" /\ self.family = "Solid" /\ "etype" \notin DOMAIN self

Called(op, arg, r) == [op |-> op, arg |-> arg, status |-> r.status, val |-> r.val]

\* the attributes after solve returned or raised r: a tensor written through
\* the storage of an attribute changes the attribute
AfterSolve(obj, r) ==
    IF r.status = "ok" /\ r.val.wrote = "self.displacements"
    THEN [obj EXCEPT !.displacements = r.val.u]
    ELSE obj

Solve ==
    /\ IsTetSolid
    /\ Let(Solid_solve(self), LAMBDA r :
          /\ ret' = Called("solve", None, [status |-> r.status,
                                           val |-> IF r.status = "ok"
                                                   THEN [u |-> r.val.u, f |-> r.val.f]
                                                   ELSE None])
          /\ self' = AfterSolve(self, r))
    /\ UNCHANGED <<pc, args>>

Stiffness ==
    /\ IsTetSolid
    /\ ret' = Called("stiffness", None, Solid_stiffness(self))
    /\ UNCHANGED <<pc, args, self>>

Volumes ==
    /\ IsTetSolid
    /\ ret' = Called("volumes", None, Solid_volumes(self))
    /\ UNCHANGED <<pc, args, self>>

ElementK ==
    /\ IsTetSolid
    /\ \E j \in Range(self.n_elem) : ret' = Called("k", j, Solid_k(self, j))
    /\ UNCHANGED <<pc, args, self>>

ElementF ==
    /\ IsTetSolid
    /\ \E j \in Range(self.n_elem) :
          ret' = Called("f", <<j, UnitStretch>>, Solid_f(self, j, UnitStretch))
    /\ UNCHANGED <<pc, args, self>>

\* the strain operator of a Solid with an element type
SolidD ==
    /\ pc = "ready" /\ self.family = "Solid" /\ "etype" \in DOMAIN self
    /\ \E B \in GradientOptions(3, etype_nodes(self.etype)) :
          ret' = Called("D", B, Ok(Solid_D(self, B)))
    /\ UNCHANGED <<pc, args, self>>

\* the strain operator of a Planar, all elements with the same gradients
PlanarD ==
    /\ pc = "ready" /\ self.family = "Planar"
    /\ \E B \in GradientOptions(2, beam_nodes(self.etype)) :
          ret' = Called("D", [j \in Range(self.n_elem) |-> B],
                        Ok(Planar_D(self, [j \in Range(self.n_elem) |-> B])))
    /\ UNCHANGED <<pc, args, self>>

BareCall ==
    /\ IsBareSolid
    /\ \E op \in {"solve", "stiffness", "volumes"} :
          ret' = Called(op, None, Raise("AttributeError"))
    /\ UNCHANGED <<pc, args, self>>

SetForces ==
    /\ IsTetSolid
    /\ \E v \in ForceOptions(Len0(self.nodes)) : self' = [self EXCEPT !.forces = v]
    /\ ret' = NoCall
    /\ UNCHANGED <<pc, args>>

SetDisplacements ==
    /\ IsTetSolid
    /\ \E v \in DisplacementOptions(Len0(self.nodes)) : self' = [self EXCEPT !.displacements = v]
    /\ ret' = NoCall
    /\ UNCHANGED <<pc, args>>

SetConstraints ==
    /\ IsTetSolid
    /\ \E v \in ConstraintOptions(Len0(self.nodes)) : self' = [self EXCEPT !.constraints = v]
    /\ ret' = NoCall
    /\ UNCHANGED <<pc, args>>

SetStrains ==
    /\ IsTetSolid
    /\ \E v \in StrainOptions(self.n_elem) : self' = [self EXCEPT !.strains = v]
    /\ ret' = NoCall
    /\ UNCHANGED <<pc, args>>

SetC ==
    /\ IsTetSolid
    /\ \E v \in Materials : self' = [self EXCEPT !.C = v]
    /\ ret' = NoCall
    /\ UNCHANGED <<pc, args>>

Next ==
    \/ Construct
    \/ Solve
    \/ Stiffness
    \/ Volumes
    \/ ElementK
    \/ ElementF
    \/ SolidD
    \/ PlanarD
    \/ BareCall
    \/ SetForces
    \/ SetDisplacements
    \/ SetConstraints
    \/ SetStrains
    \/ SetC

Spec == Init /\ [][Next]_vars


(***************************************************************************)
(* Properties.  Rationals are compared by value; sums over DOF sets follow  *)
(* the formulas of the specification, not the index tensors of the code.    *)
(***************************************************************************)
REq(x, y) == x[1] * y[2] = y[1] * x[2]
VecEq(u, v) == DOMAIN u = DOMAIN v /\ \A i \in DOMAIN u : REq(u[i], v[i])

RECURSIVE SetSum(_, _)
SetSum(S, term) ==
    IF S = {} THEN RZero
    ELSE LET x == CHOOSE y \in S : TRUE
         IN  RAdd(term[x], SetSum(S \ {x}, term))

Dofs(obj) == Range(obj.n_dofs)
FlaggedDofs(obj) == {i \in Dofs(obj) : Ravel(obj.constraints)[i]}
FreeDofs(obj) == Dofs(obj) \ FlaggedDofs(obj)
Values(t) == {t[a] : a \in DOMAIN t}

SupportedArity(family) ==
    CASE family = "Truss" -> {2, 3}
      [] family = "Planar" -> {3, 4, 6, 8}
      [] family = "Solid" -> {4, 8}

\* C1: for every family, constructing a problem whose first element has an
\* unsupported node count raises the configuration error and computes
\* nothing: no element type is selected, no global index map is built and no
\* object is handed back.
C1_UnsupportedArityRejected ==
    (pc /= "new" /\ Len0(self.elements[0]) \notin SupportedArity(self.family))
    => /\ pc = "failed"
       /\ ret.op = "__init__" /\ ret.status = "ValueError"
       /\ "etype" \notin DOMAIN self
       /\ "global_indices" \notin DOMAIN self

\* the determinant at quadrature point i of element j, from the node
\* coordinates alone
ElementDetJ(obj, j, i) ==
    Det3(MatMul(etype_B(obj.etype, etype_ipoints(obj.etype)[i]),
                ElementNodes(obj, obj.elements[j])))
NonPositiveJacobian(obj, j) ==
    \E i \in DOMAIN etype_ipoints(obj.etype) : RLeqZero(ElementDetJ(obj, j, i))
\* the call r integrates over element j
Integrates(r, j) ==
    \/ r.op \in {"stiffness", "solve", "volumes"}
    \/ r.op = "k" /\ r.arg = j
    \/ r.op = "f" /\ r.arg[1] = j

\* C2: whenever a quadrature point of an element has detJ <= 0, every
\* operation that integrates over that element (k, f, stiffness, solve,
\* volumes) ends in the geometry error instead of returning a value.
C2_NonPositiveJacobianRaises ==
    IsTetSolid =>
      \A j \in Range(self.n_elem) :
        (NonPositiveJacobian(self, j) /\ Integrates(ret, j)) => ret.status = "GeometryError"

\* u is the prescribed displacement at the flagged DOFs and solves
\* K[U,U] u_U = (p + F - K[:,C] d[C])[U] at the others
SolvesReducedSystem(obj, K, F, u) ==
    /\ \A i \in FlaggedDofs(obj) : REq(u[i], Ravel(obj.displacements)[i])
    /\ \A a \in FreeDofs(obj) :
         REq(SetSum(FreeDofs(obj), [b \in Dofs(obj) |-> RMul(K[a][b], u[b])]),
             RSub(RAdd(Ravel(obj.forces)[a], F[a]),
                  SetSum(FlaggedDofs(obj),
                         [c \in Dofs(obj) |-> RMul(K[a][c], Ravel(obj.displacements)[c])])))

\* C3: after every successful solve the displacement equals the prescribed
\* value at every flagged DOF and the solution of the reduced system at every
\* other DOF; the code's constrained and free index lists are the flagged and
\* the unflagged DOFs, disjoint and covering all n_dofs.
C3_ReducedSystemSolved ==
    (IsTetSolid /\ ret.op = "solve" /\ ret.status = "ok")
    => /\ Values(Constrained(self)) = FlaggedDofs(self)
       /\ Values(Unconstrained(self)) = FreeDofs(self)
       /\ Values(Constrained(self)) \cap Values(Unconstrained(self)) = {}
       /\ Values(Constrained(self)) \cup Values(Unconstrained(self)) = Dofs(self)
       /\ Len0(Constrained(self)) + Len0(Unconstrained(self)) = self.n_dofs
       /\ SolvesReducedSystem(self, Solid_stiffness(self).val, Solid_inelastic(self).val,
                              Ravel(ret.val.u))

\* a solve with supports, a prescribed displacement, a load and a strain
\* field that moved a free DOF
C3_Witness ==
    /\ IsTetSolid /\ ret.op = "solve" /\ ret.status = "ok"
    /\ FlaggedDofs(self) /= {} /\ FreeDofs(self) /= {}
    /\ \E i \in FlaggedDofs(self) : ~REq(Ravel(self.displacements)[i], RZero)
    /\ self.forces /= ZeroField(Len0(self.nodes))
    /\ self.strains /= None
    /\ \E a \in FreeDofs(self) : ~REq(Ravel(ret.val.u)[a], RZero)

\* C4: for every successful solve the returned force f = K u reproduces the
\* applied external force at every free DOF.
C4_ForceRoundTrip ==
    (IsTetSolid /\ ret.op = "solve" /\ ret.status = "ok")
    => \A a \in FreeDofs(self) : REq(Ravel(ret.val.f)[a], Ravel(self.forces)[a])

\* C5: with positive Jacobians and a symmetric C, the assembled K and every
\* element matrix are symmetric.
C5_StiffnessSymmetric ==
    (IsTetSolid /\ ret.op \in {"stiffness", "k"} /\ ret.status = "ok" /\ IsSymmetric(self.C))
    => IsSymmetric(ret.val)

\* two elements sharing nodes assembled with a symmetric C, with a non-zero
\* entry off the diagonal
C5_Witness ==
    /\ IsTetSolid /\ ret.op = "stiffness" /\ ret.status = "ok"
    /\ self.n_elem = 2 /\ IsSymmetric(self.C)
    /\ \E a \in Dofs(self) : \E b \in Dofs(self) : a /= b /\ ret.val[a][b] /= RZero


\* what the caller sees of solve on the object obj
SolveResult(obj) ==
    Let(Solid_solve(obj), LAMBDA r :
      Called("solve", None, [status |-> r.status,
                             val |-> IF r.status = "ok"
                                     THEN [u |-> r.val.u, f |-> r.val.f] ELSE None]))
IsCall(r) == r.op \in {"solve", "stiffness", "volumes", "k", "f", "D"}

\* C6: no call (solve, stiffness, volumes, ...) changes nodes, elements,
\* forces, displacements, constraints, strains, C or the index maps; the
\* result of a solve is the one computed from the fields current at the call,
\* and a solve that follows a solve without an update returns the same.
C6_CallsArePure ==
    [][IsCall(ret') =>
         /\ self' = self
         /\ (ret'.op = "solve" /\ "etype" \in DOMAIN self') => ret' = SolveResult(self')
         /\ (ret.op = "solve" /\ ret'.op = "solve") => ret' = ret]_vars

\* a solve after updates of the load and of the prescribed displacements,
\* whose displacement is not the stored field
C6_Witness ==
    /\ IsTetSolid /\ ret.op = "solve" /\ ret.status = "ok"
    /\ self.forces /= ZeroField(Len0(self.nodes))
    /\ self.displacements /= ZeroField(Len0(self.nodes))
    /\ ret.val.u /= self.displacements

\* an all-ones strain operator and unit determinants for every element
OnesD(obj) ==
    [j \in Range(obj.n_elem) |-> [k \in Range(obj.n_strains) |->
        [l \in Range(2 * beam_nodes(obj.etype)) |-> RInt(1)]]]
OnesDetJ(obj) == [j \in Range(obj.n_elem) |-> RInt(1)]
BeamInelasticForce(obj) ==
    IF obj.family = "Truss"
    THEN Truss_compute_f(obj, OnesDetJ(obj), OnesD(obj), InelasticStress(obj))
    ELSE Planar_compute_f(obj, OnesDetJ(obj), OnesD(obj), InelasticStress(obj))

\* C7: the stiffness is the same for every value of the inelastic strain
\* field, absent included; with no strain given (Solid strains = None, Truss
\* and Planar ext_strain as constructed) the inelastic force is zero at every
\* DOF and the solve satisfies the reduced system with that term left out.
C7_StrainOnlyInForce ==
    /\ (IsTetSolid /\ ret.op = "stiffness")
       => \A e \in StrainOptions(self.n_elem) :
            Called("stiffness", None, Solid_stiffness([self EXCEPT !.strains = e])) = ret
    /\ (IsTetSolid /\ ret.op = "solve" /\ ret.status = "ok" /\ self.strains = None)
       => /\ Solid_inelastic(self) = Ok(ZeroVec(self.n_dofs))
          /\ SolvesReducedSystem(self, Solid_stiffness(self).val, ZeroVec(self.n_dofs),
                                 Ravel(ret.val.u))
    /\ (pc = "ready" /\ self.family \in {"Truss", "Planar"})
       => /\ \A j \in Range(self.n_elem) :
               self.ext_strain[j] = [r \in Range(self.n_strains) |-> RZero]
          /\ \A j \in Range(self.n_elem) :
               \A l \in DOMAIN BeamInelasticForce(self)[j] :
                 REq(BeamInelasticForce(self)[j][l], RZero)

\* a loaded solve of a supported mesh without a strain field
C7_Witness ==
    /\ IsTetSolid /\ ret.op = "solve" /\ ret.status = "ok"
    /\ self.strains = None
    /\ self.forces /= ZeroField(Len0(self.nodes))
    /\ FlaggedDofs(self) /= {} /\ FreeDofs(self) /= {}
    /\ \E a \in FreeDofs(self) : ~REq(Ravel(ret.val.u)[a], RZero)

NoStrain(obj) ==
    obj.strains = None \/ obj.strains = [j \in Range(obj.n_elem) |-> [r \in Range(6) |-> RZero]]
PositiveJacobians(obj) == \A j \in Range(obj.n_elem) : ~NonPositiveJacobian(obj, j)

ElementMatrices(obj) == Materialize([j \in Range(obj.n_elem) |-> Solid_k(obj, j).val])
ElementForces(obj) ==
    Materialize([j \in Range(obj.n_elem) |-> Solid_f(obj, j, obj.strains[j]).val])
\* the local positions of element j that map to global DOF r
LocalOf(obj, j, r) ==
    {a \in DOMAIN ElementIndices(obj.elements[j]) : ElementIndices(obj.elements[j])[a] = r}
\* sum over the elements j and the local pairs (a, b) with g[a] = r, g[b] = c
ScatteredK(obj, ks, r, c) ==
    SetSum(Range(obj.n_elem),
           [j \in Range(obj.n_elem) |->
              SetSum(LocalOf(obj, j, r) \X LocalOf(obj, j, c),
                     [ab \in LocalOf(obj, j, r) \X LocalOf(obj, j, c) |-> ks[j][ab[1]][ab[2]]])])
ScatteredF(obj, fs, r) ==
    SetSum(Range(obj.n_elem),
           [j \in Range(obj.n_elem) |->
              SetSum(LocalOf(obj, j, r), [a \in LocalOf(obj, j, r) |-> fs[j][a]])])
KIsScattered(obj, K, ks) == \A r \in Dofs(obj) : \A c \in Dofs(obj) : REq(K[r][c], ScatteredK(obj, ks, r, c))
FIsScattered(obj, F, fs) == \A r \in Dofs(obj) : REq(F[r], ScatteredF(obj, fs, r))

\* C9: stiffness adds k_j[a][b] to K[g[a]][g[b]] (row from a, column from b)
\* and solve adds f_j[a] to F[g[a]]; a global entry holds the sum of the
\* contributions of all elements that touch it, and zero if none does.
C9_ScatterRowFromColumnFrom ==
    /\ (IsTetSolid /\ ret.op = "stiffness" /\ ret.status = "ok")
       => KIsScattered(self, ret.val, ElementMatrices(self))
    /\ (IsTetSolid /\ ret.op = "solve" /\ ret.status = "ok" /\ self.strains /= None)
       => FIsScattered(self, Solid_inelastic(self).val, ElementForces(self))

\* the three components of the columns of node n in row r of a solid operator
Triple(D, r, n) == <<D[r][3 * n], D[r][3 * n + 1], D[r][3 * n + 2]>>
Pair(D, r, n) == <<D[r][2 * n], D[r][2 * n + 1]>>

\* C10: Solid.D is 6 x (3 nodes) with rows exx, eyy, ezz, gyz, gzx, gxy and
\* node n in columns 3n, 3n+1, 3n+2; Planar.D is, per element, 3 x (2 nodes)
\* with dN/dx at even columns in row 0, dN/dy at odd columns in row 1, and
\* dN/dy at even, dN/dx at odd columns in row 2; the columns follow the DOF
\* numbering dim * node + component of the global index map.
C10_StrainOperatorLayout ==
    /\ (pc = "ready" /\ self.family = "Solid" /\ ret.op = "D")
       => /\ DOMAIN ret.val = Range(6)
          /\ \A r \in Range(6) : DOMAIN ret.val[r] = Range(3 * etype_nodes(self.etype))
          /\ \A n \in Range(etype_nodes(self.etype)) :
               /\ Triple(ret.val, 0, n) = <<ret.arg[0][n], RZero, RZero>>
               /\ Triple(ret.val, 1, n) = <<RZero, ret.arg[1][n], RZero>>
               /\ Triple(ret.val, 2, n) = <<RZero, RZero, ret.arg[2][n]>>
               /\ Triple(ret.val, 3, n) = <<RZero, ret.arg[2][n], ret.arg[1][n]>>
               /\ Triple(ret.val, 4, n) = <<ret.arg[2][n], RZero, ret.arg[0][n]>>
               /\ Triple(ret.val, 5, n) = <<ret.arg[1][n], ret.arg[0][n], RZero>>
          /\ \A j \in Range(self.n_elem) : \A n \in DOMAIN self.elements[j] :
               \A c \in Range(3) :
                 /\ self.global_indices[j][1][0][3 * n + c] = 3 * self.elements[j][n] + c
                 /\ self.global_indices[j][2][3 * n + c][0] = 3 * self.elements[j][n] + c
    /\ (pc = "ready" /\ self.family = "Planar" /\ ret.op = "D")
       => /\ DOMAIN ret.val = Range(self.n_elem)
          /\ \A j \in Range(self.n_elem) :
               /\ DOMAIN ret.val[j] = Range(3)
               /\ \A r \in Range(3) : DOMAIN ret.val[j][r] = Range(2 * beam_nodes(self.etype))
               /\ \A n \in Range(beam_nodes(self.etype)) :
                    /\ Pair(ret.val[j], 0, n) = <<ret.arg[j][0][n], RZero>>
                    /\ Pair(ret.val[j], 1, n) = <<RZero, ret.arg[j][1][n]>>
                    /\ Pair(ret.val[j], 2, n) = <<ret.arg[j][1][n], ret.arg[j][0][n]>>

\* a solid operator of the tetrahedron whose shear rows differ
C10_Witness ==
    /\ pc = "ready" /\ self.family = "Solid" /\ ret.op = "D"
    /\ self.etype = "Tetra1"
    /\ ret.val[3] /= ret.val[5]
    /\ ret.val[3][1] /= RZero


\* the local positions that the stored maps of element j send to DOF r: by
\* the first grid (taken along its first row) and by the second grid (taken
\* along its first column)
FirstGridOf(obj, j, r) ==
    {b \in DOMAIN obj.global_indices[j][1][0] : obj.global_indices[j][1][0][b] = r}
SecondGridOf(obj, j, r) ==
    {a \in DOMAIN obj.global_indices[j][2] : obj.global_indices[j][2][a][0] = r}
\* K[r][c] is the sum of the k_j[a][b] whose stored index pair is (r, c)
AssembledByMaps(obj, K, ks) ==
    \A r \in Dofs(obj) : \A c \in Dofs(obj) :
      REq(K[r][c],
          SetSum(Range(obj.n_elem),
                 [j \in Range(obj.n_elem) |->
                    SetSum(SecondGridOf(obj, j, c) \X FirstGridOf(obj, j, r),
                           [ab \in SecondGridOf(obj, j, c) \X FirstGridOf(obj, j, r) |->
                              ks[j][ab[1]][ab[2]]])]))
\* F[r] is the sum of the f_j[b] that the first stored grid sends to r
ForceByMaps(obj, F, fs) ==
    \A r \in Dofs(obj) :
      REq(F[r],
          SetSum(Range(obj.n_elem),
                 [j \in Range(obj.n_elem) |->
                    SetSum(FirstGridOf(obj, j, r), [b \in FirstGridOf(obj, j, r) |-> fs[j][b]])]))

\* C11: a Solid built from a supported first element has one index map per
\* element, built from that element's own node list as 3 * node + component,
\* every index within 0 .. n_dofs - 1 with n_dofs = 3 * nodes; the maps stay
\* as built and are the
\* ones stiffness and solve scatter by; the element type follows the node
\* count of the first element alone and construction never fails on the
\* node count of a later element.
C11_GlobalIndexMaps ==
    (/\ pc /= "new" /\ self.family = "Solid"
     /\ Len0(self.elements[0]) \in SupportedArity("Solid"))
    => /\ pc = "ready"
       /\ self.n_dofs = 3 * Len0(self.nodes)
       /\ DOMAIN self.global_indices = Range(self.n_elem)
       /\ self.n_elem = Len0(self.elements)
       /\ \A j \in Range(self.n_elem) :
            /\ DOMAIN self.global_indices[j][1] = Range(3 * Len0(self.elements[j]))
            /\ DOMAIN self.global_indices[j][2] = Range(3 * Len0(self.elements[j]))
            /\ \A a \in Range(3 * Len0(self.elements[j])) :
                 \A n \in DOMAIN self.elements[j] : \A c \in Range(3) :
                   /\ self.global_indices[j][1][a][3 * n + c] = 3 * self.elements[j][n] + c
                   /\ self.global_indices[j][2][3 * n + c][a] = 3 * self.elements[j][n] + c
                   /\ self.global_indices[j][1][a][3 * n + c] \in Dofs(self)
       /\ Len0(self.elements[0]) = Hexa1_nodes
            => ("etype" \in DOMAIN self /\ self.etype = "Hexa1")
       /\ Len0(self.elements[0]) = Tetra1_nodes
            => ("etype" \in DOMAIN self /\ self.etype = "Tetra1")
       /\ (IsTetSolid /\ ret.op = "stiffness" /\ ret.status = "ok")
            => AssembledByMaps(self, ret.val, ElementMatrices(self))
       /\ (IsTetSolid /\ ret.op = "solve" /\ ret.status = "ok" /\ self.strains /= None)
            => ForceByMaps(self, Solid_inelastic(self).val, ElementForces(self))

\* a Solid built from an eight-node element followed by a four-node element
C11_Witness ==
    /\ pc = "ready" /\ self.family = "Solid" /\ self.n_elem = 2
    /\ Len0(self.elements[0]) = Hexa1_nodes /\ Len0(self.elements[1]) = Tetra1_nodes
    /\ self.etype = "Hexa1"
    /\ DOMAIN self.global_indices[1][1] = Range(3 * Tetra1_nodes)

====
